---- MODULE Spec2Model ----
(***************************************************************************)
(* Organ pertinence classifier: the three copies of the rule-based text    *)
(* classifier (text_classifier.py, app.py, text_classifier_tkinter.py),    *)
(* their pattern registries, Python's regular-expression matching of the   *)
(* pattern shapes the registries use, and the windowed form's handlers.    *)
(*                                                                         *)
(* A Python str is a sequence of one-character strings.  Positions are     *)
(* Python's: pos counts the characters before the position, so text[pos]   *)
(* in Python is text[pos + 1] here.                                        *)
(***************************************************************************)
EXTENDS Integers, Sequences, FiniteSets, TLC

VARIABLES
    registry,      \* the module-level compiled pattern lists of the three files
    parts,         \* the fragments the input text was put together from
    text,          \* the value passed as `text` to the classifier
    called,        \* which copy was called, and with which return_evidence
    lung_hits, kidney_hits, ignored_hits,
                   \* the locals of that call when it ended
    result,        \* what that call returned or raised
    calls,         \* calls of classify_medical_abstract run step by step: per call
                   \* its position and its locals
    text_box,      \* windowed form: the content of the text area
    result_var,    \* windowed form: the result field
    message,       \* windowed form: the message box the last handler showed
    fs             \* the files the windowed form can open and save

vars == <<registry, parts, text, called, lung_hits, kidney_hits, ignored_hits, result,
          calls, text_box, result_var, message, fs>>

-----------------------------------------------------------------------------
(* Characters *)

\* the characters of the model for which str.isspace() holds
Whitespace == {" ", "\n", "\t"}

\* the characters \w matches (ASCII part): letters, digits and the underscore
WordChars ==
    {"a", "b", "c", "d", "e", "f", "g", "h", "i", "j", "k", "l", "m", "n", "o", "p",
     "q", "r", "s", "t", "u", "v", "w", "x", "y", "z", "A", "B", "C", "D", "E", "F",
     "G", "H", "I", "J", "K", "L", "M", "N", "O", "P", "Q", "R", "S", "T", "U", "V",
     "W", "X", "Y", "Z", "0", "1", "2", "3", "4", "5", "6", "7", "8", "9", "_"}
IsWord(c) == c \in WordChars

ToLower ==
    "A" :> "a" @@ "B" :> "b" @@ "C" :> "c" @@ "D" :> "d" @@ "E" :> "e" @@ "F" :> "f" @@ "G" :> "g" @@
    "H" :> "h" @@ "I" :> "i" @@ "J" :> "j" @@ "K" :> "k" @@ "L" :> "l" @@ "M" :> "m" @@ "N" :> "n" @@
    "O" :> "o" @@ "P" :> "p" @@ "Q" :> "q" @@ "R" :> "r" @@ "S" :> "s" @@ "T" :> "t" @@ "U" :> "u" @@
    "V" :> "v" @@ "W" :> "w" @@ "X" :> "x" @@ "Y" :> "y" @@ "Z" :> "z"
ToUpper ==
    "a" :> "A" @@ "b" :> "B" @@ "c" :> "C" @@ "d" :> "D" @@ "e" :> "E" @@ "f" :> "F" @@ "g" :> "G" @@
    "h" :> "H" @@ "i" :> "I" @@ "j" :> "J" @@ "k" :> "K" @@ "l" :> "L" @@ "m" :> "M" @@ "n" :> "N" @@
    "o" :> "O" @@ "p" :> "P" @@ "q" :> "Q" @@ "r" :> "R" @@ "s" :> "S" @@ "t" :> "T" @@ "u" :> "U" @@
    "v" :> "V" @@ "w" :> "W" @@ "x" :> "X" @@ "y" :> "Y" @@ "z" :> "Z"

\* str.lower() / str.upper() of one ASCII character
lower(c) == IF c \in DOMAIN ToLower THEN ToLower[c] ELSE c
upper(c) == IF c \in DOMAIN ToUpper THEN ToUpper[c] ELSE c

str_lower(s) == [i \in DOMAIN s |-> lower(s[i])]
str_upper(s) == [i \in DOMAIN s |-> upper(s[i])]

-----------------------------------------------------------------------------
(* Regular expressions: a pattern is a sequence of nodes.                  *)

\* \b
B == [t |-> "b", alts |-> <<>>]
\* a literal, and a group of alternatives (a|b); (a)? is the alternatives a, then empty
Alt(a) == [t |-> "alt", alts |-> a]
Lit(s) == Alt(<<s>>)
Opt(s) == Alt(<<s, <<>>>>)
\* \w* (greedy)
WStar == [t |-> "wstar", alts |-> <<>>]

\* variant: re.compile(p), the flag left out
_compile_CaseSensitive(patterns) ==
    [i \in DOMAIN patterns |-> [nodes |-> patterns[i], ignorecase |-> FALSE]]

\* re.compile(p, re.IGNORECASE) for every p
_compile(patterns) == [i \in DOMAIN patterns |-> [nodes |-> patterns[i], ignorecase |-> TRUE]]

\* one pattern character against one text character
CharEq(ignorecase, pch, tch) == IF ignorecase THEN lower(pch) = lower(tch) ELSE pch = tch

\* the literal s occurs in txt at pos
LitAt(ignorecase, txt, pos, s) ==
    /\ pos + Len(s) <= Len(txt)
    /\ \A i \in 1..Len(s) : CharEq(ignorecase, s[i], txt[pos + i])

\* variant: the patterns written without \b
AtBoundary_Anywhere(txt, pos) == TRUE

\* \b at pos: exactly one of the characters before and after pos is a word character
AtBoundary(txt, pos) ==
    (pos > 0 /\ IsWord(txt[pos])) # (pos < Len(txt) /\ IsWord(txt[pos + 1]))

\* the number of word characters from pos on
WordRun(txt, pos) ==
    LET stops == {n \in 0..(Len(txt) - pos) : n = Len(txt) - pos \/ ~IsWord(txt[pos + n + 1])}
    IN  CHOOSE n \in stops : \A m \in stops : n <= m

RECURSIVE Match(_, _, _, _), TryAlts(_, _, _, _, _), TryStar(_, _, _, _, _)

\* The backtracking matcher: the end of the first match, in the matcher's order of
\* preference, of the nodes k.. of cp at pos, or -1 when there is none.
Match(cp, k, txt, pos) ==
    IF k > Len(cp.nodes) THEN pos
    ELSE LET node == cp.nodes[k] IN
         CASE node.t = "b" -> IF AtBoundary(txt, pos) THEN Match(cp, k + 1, txt, pos) ELSE -1
           [] node.t = "alt" -> TryAlts(cp, k, txt, pos, 1)
           [] node.t = "wstar" -> TryStar(cp, k, txt, pos, WordRun(txt, pos))

\* alternatives in the order written
TryAlts(cp, k, txt, pos, j) ==
    LET alts == cp.nodes[k].alts IN
    IF j > Len(alts) THEN -1
    ELSE IF LitAt(cp.ignorecase, txt, pos, alts[j])
         THEN LET e == Match(cp, k + 1, txt, pos + Len(alts[j]))
              IN  IF e # -1 THEN e ELSE TryAlts(cp, k, txt, pos, j + 1)
         ELSE TryAlts(cp, k, txt, pos, j + 1)

\* greedy repetition: the longest run first, then giving characters back
TryStar(cp, k, txt, pos, n) ==
    IF n < 0 THEN -1
    ELSE LET e == Match(cp, k + 1, txt, pos + n)
         IN  IF e # -1 THEN e ELSE TryStar(cp, k, txt, pos, n - 1)

RECURSIVE ScanFrom(_, _, _)
\* the matches from position `from` on: leftmost first, the next search starting
\* where the last match ended (after an empty match, one character on)
ScanFrom(cp, txt, from) ==
    LET starts == {s \in from..Len(txt) : Match(cp, 1, txt, s) # -1} IN
    IF starts = {} THEN <<>>
    ELSE LET s == CHOOSE a \in starts : \A b \in starts : a <= b
             e == Match(cp, 1, txt, s)
         IN  <<[group0 |-> SubSeq(txt, s + 1, e), span |-> <<s, e>>]>>
                 \o ScanFrom(cp, txt, IF e > s THEN e ELSE s + 1)

\* Pattern.finditer(text): the match objects, as (m.group(0), m.span())
finditer(cp, txt) == ScanFrom(cp, txt, 0)

-----------------------------------------------------------------------------
(* The pattern registries *)

\* text_classifier.py
_LUNG_PATTERNS == _compile(<<
    <<B, Lit(<<"l","u","n","g">>), Opt(<<"s">>), B>>,                      \* \blung(s)?\b
    <<B, Lit(<<"p","u","l","m","o","n","a","r">>), Alt(<<<<"y">>, <<"i","e","s">>>>), B>>,     \* \bpulmonar(?:y|ies)\b
    <<B, Lit(<<"r","e","s","p","i","r","a","t","o","r","y"," ","t","r","a","c","t">>), B>>,                     \* \brespiratory tract\b
    <<B, Lit(<<"b","r","o","n","c","h">>), WStar, B>>,                         \* \bbronch\w*\b
    <<B, Lit(<<"a","l","v","e","o","l">>), WStar, B>>,                         \* \balveol\w*\b
    <<B, Lit(<<"p","l","e","u","r">>), WStar, B>>,                          \* \bpleur\w*\b
    <<B, Lit(<<"p","n","e","u","m","o","n">>), WStar, B>>,                        \* \bpneumon\w*\b
    <<B, Lit(<<"C","O","P","D">>), B>>,                                  \* \bCOPD\b
    <<B, Lit(<<"A","R","D","S">>), B>>,                                  \* \bARDS\b
    <<B, Lit(<<"i","n","t","e","r","s","t","i","t","i","a","l"," ","l","u","n","g"," ","d","i","s","e","a","s","e">>), B>> >>)          \* \binterstitial lung disease\b

_KIDNEY_PATTERNS == _compile(<<
    <<B, Lit(<<"k","i","d","n","e","y">>), Opt(<<"s">>), B>>,                    \* \bkidney(s)?\b
    <<B, Lit(<<"r","e","n","a","l">>), B>>,                                 \* \brenal\b
    <<B, Lit(<<"n","e","p","h","r">>), WStar, B>>,                          \* \bnephr\w*\b
    <<B, Lit(<<"g","l","o","m","e","r","u","l">>), WStar, B>>,                       \* \bglomerul\w*\b
    <<B, Lit(<<"c","r","e","a","t","i","n","i","n">>), WStar, B>>,                      \* \bcreatinin\w*\b
    <<B, Lit(<<"G","F","R">>), B>>,                                   \* \bGFR\b
    <<B, Lit(<<"d","i","a","l","y","s","i","s">>), B>>,                              \* \bdialysis\b
    <<B, Lit(<<"p","r","o","t","e","i","n","u","r","i","a">>), B>>,                           \* \bproteinuria\b
    <<B, Lit(<<"a","l","b","u","m","i","n","u","r","i","a">>), B>> >>)                        \* \balbuminuria\b

_IGNORE_PATTERNS == _compile(<<
    <<B, Lit(<<"d","y","s","p","n","o">>), Opt(<<"e">>), Opt(<<"a">>), B>>,        \* \bdyspnoe?a?\b
    <<B, Lit(<<"s","h","o","r","t">>), Opt(<<"n","e","s","s">>), Lit(<<" ","o","f"," ","b","r","e","a","t","h">>), B>>,  \* \bshort(ness)? of breath\b
    <<B, Lit(<<"r","e","n","i","n","-","a","n","g","i","o","t","e","n","s","i","n","-","a","l","d","o","s","t","e","r","o","n","e">>), Alt(<<<<"-">>, <<" ">>>>), Lit(<<"s","y","s","t","e","m">>), B>>,
                                                  \* \brenin-angiotensin-aldosterone(-| )system\b
    <<B, Lit(<<"R","A","A","S">>), B>>,                                  \* \bRAAS\b
    <<B, Lit(<<"t","a","c","h","y","c","a","r","d","i","a">>), B>>,                           \* \btachycardia\b
    <<B, Lit(<<"h","y","p","e","r","t","e","n","s","i","o","n">>), B>> >>)                       \* \bhypertension\b

\* app.py: the same three lists
app_LUNG_PATTERNS == _compile(<<
    <<B, Lit(<<"l","u","n","g">>), Opt(<<"s">>), B>>,
    <<B, Lit(<<"p","u","l","m","o","n","a","r">>), Alt(<<<<"y">>, <<"i","e","s">>>>), B>>,
    <<B, Lit(<<"r","e","s","p","i","r","a","t","o","r","y"," ","t","r","a","c","t">>), B>>,
    <<B, Lit(<<"b","r","o","n","c","h">>), WStar, B>>,
    <<B, Lit(<<"a","l","v","e","o","l">>), WStar, B>>,
    <<B, Lit(<<"p","l","e","u","r">>), WStar, B>>,
    <<B, Lit(<<"p","n","e","u","m","o","n">>), WStar, B>>,
    <<B, Lit(<<"C","O","P","D">>), B>>,
    <<B, Lit(<<"A","R","D","S">>), B>>,
    <<B, Lit(<<"i","n","t","e","r","s","t","i","t","i","a","l"," ","l","u","n","g"," ","d","i","s","e","a","s","e">>), B>> >>)

app_KIDNEY_PATTERNS == _compile(<<
    <<B, Lit(<<"k","i","d","n","e","y">>), Opt(<<"s">>), B>>,
    <<B, Lit(<<"r","e","n","a","l">>), B>>,
    <<B, Lit(<<"n","e","p","h","r">>), WStar, B>>,
    <<B, Lit(<<"g","l","o","m","e","r","u","l">>), WStar, B>>,
    <<B, Lit(<<"c","r","e","a","t","i","n","i","n">>), WStar, B>>,
    <<B, Lit(<<"G","F","R">>), B>>,
    <<B, Lit(<<"d","i","a","l","y","s","i","s">>), B>>,
    <<B, Lit(<<"p","r","o","t","e","i","n","u","r","i","a">>), B>>,
    <<B, Lit(<<"a","l","b","u","m","i","n","u","r","i","a">>), B>> >>)

app_IGNORE_PATTERNS == _compile(<<
    <<B, Lit(<<"d","y","s","p","n","o">>), Opt(<<"e">>), Opt(<<"a">>), B>>,
    <<B, Lit(<<"s","h","o","r","t">>), Opt(<<"n","e","s","s">>), Lit(<<" ","o","f"," ","b","r","e","a","t","h">>), B>>,
    <<B, Lit(<<"r","e","n","i","n","-","a","n","g","i","o","t","e","n","s","i","n","-","a","l","d","o","s","t","e","r","o","n","e">>), Alt(<<<<"-">>, <<" ">>>>), Lit(<<"s","y","s","t","e","m">>), B>>,
    <<B, Lit(<<"R","A","A","S">>), B>>,
    <<B, Lit(<<"t","a","c","h","y","c","a","r","d","i","a">>), B>>,
    <<B, Lit(<<"h","y","p","e","r","t","e","n","s","i","o","n">>), B>> >>)

\* text_classifier_tkinter.py: the pattern strings, then the compiled lists
LUNG_PATTERNS == <<
    <<B, Lit(<<"l","u","n","g">>), Opt(<<"s">>), B>>,                      \* \blung(s)?\b
    <<B, Lit(<<"p","u","l","m","o","n","a","r">>), Alt(<<<<"y">>, <<"i","e","s">>>>), B>>,     \* \bpulmonar(?:y|ies)\b
    <<B, Lit(<<"r","e","s","p","i","r","a","t","o","r">>), Alt(<<<<"y">>, <<"i","e","s">>>>), B>>,   \* \brespirator(?:y|ies)\b
    <<B, Lit(<<"b","r","o","n","c","h">>), WStar, B>>,                         \* \bbronch\w*\b
    <<B, Lit(<<"a","l","v","e","o","l">>), WStar, B>>,                         \* \balveol\w*\b
    <<B, Lit(<<"s","p","i","r","o","m","e","t","r">>), WStar, B>>,                      \* \bspirometr\w*\b
    <<B, Lit(<<"p","l","e","u","r">>), WStar, B>>,                          \* \bpleur\w*\b
    <<B, Lit(<<"i","n","t","e","r","s","t","i","t","i","a","l"," ","l","u","n","g"," ","d","i","s","e","a","s","e">>), B>>,             \* \binterstitial lung disease\b
    <<B, Lit(<<"A","R","D","S">>), B>>,                                  \* \bARDS\b
    <<B, Lit(<<"C","O","P","D">>), B>>,                                  \* \bCOPD\b
    <<B, Lit(<<"p","n","e","u","m","o","n">>), WStar, B>> >>                      \* \bpneumon\w*\b

KIDNEY_PATTERNS == <<
    <<B, Lit(<<"k","i","d","n","e","y">>), Opt(<<"s">>), B>>,                    \* \bkidney(s)?\b
    <<B, Lit(<<"r","e","n","a","l">>), B>>,                                 \* \brenal\b
    <<B, Lit(<<"n","e","p","h","r">>), WStar, B>>,                          \* \bnephr\w*\b
    <<B, Lit(<<"g","l","o","m","e","r","u","l">>), WStar, B>>,                       \* \bglomerul\w*\b
    <<B, Lit(<<"c","r","e","a","t","i","n","i","n">>), WStar, B>>,                      \* \bcreatinin\w*\b
    <<B, Lit(<<"G","F","R">>), B>>,                                   \* \bGFR\b
    <<B, Lit(<<"d","i","a","l","y","s","i","s">>), B>>,                              \* \bdialysis\b
    <<B, Lit(<<"a","l","b","u","m","i","n","u","r","i","a">>), B>> >>                         \* \balbuminuria\b

CP_LUNG == _compile(LUNG_PATTERNS)
CP_KIDNEY == _compile(KIDNEY_PATTERNS)

\* the module-level lists as the running process holds them
Registry == [tc  |-> [lungs |-> _LUNG_PATTERNS, kidneys |-> _KIDNEY_PATTERNS,
                      ignored |-> _IGNORE_PATTERNS],
             app |-> [lungs |-> app_LUNG_PATTERNS, kidneys |-> app_KIDNEY_PATTERNS,
                      ignored |-> app_IGNORE_PATTERNS],
             tk  |-> [lungs |-> CP_LUNG, kidneys |-> CP_KIDNEY, ignored |-> <<>>]]

-----------------------------------------------------------------------------
(* Python values passed as `text` *)

PyStr(s) == [kind |-> "str", s |-> s, n |-> 0]
None == [kind |-> "NoneType", s |-> <<>>, n |-> 0]
PyInt(n) == [kind |-> "int", s |-> <<>>, n |-> n]
PyList(items) == [kind |-> "list", s |-> items, n |-> 0]

\* bool(v)
Truthy(v) ==
    CASE v.kind = "NoneType" -> FALSE
      [] v.kind = "int" -> v.n # 0
      [] OTHER -> v.s # <<>>

\* isinstance(v, str)
IsStr(v) == v.kind = "str"

-----------------------------------------------------------------------------
(* The classifier *)

NoEvidence == [lungs |-> <<>>, kidneys |-> <<>>, ignored |-> <<>>]
\* `return label` and `return label, evidence`
Returned(label) ==
    [raised |-> "", label |-> label, has_evidence |-> FALSE, evidence |-> NoEvidence]
ReturnedWith(label, evidence) ==
    [raised |-> "", label |-> label, has_evidence |-> TRUE, evidence |-> evidence]
\* an exception leaving the call
Raised(exc) ==
    [raised |-> exc, label |-> "", has_evidence |-> FALSE, evidence |-> NoEvidence]

RECURSIVE HitsFrom(_, _, _)
HitsFrom(txt, patterns, i) ==
    IF i > Len(patterns) THEN <<>>
    ELSE finditer(patterns[i], txt) \o HitsFrom(txt, patterns, i + 1)

RECURSIVE InsertHit(_, _)
InsertHit(h, sorted) ==
    IF sorted = <<>> THEN <<h>>
    ELSE IF h.span[1] < Head(sorted).span[1] THEN <<h>> \o sorted
    ELSE <<Head(sorted)>> \o InsertHit(h, Tail(sorted))
RECURSIVE SortHits(_)
SortHits(hits) ==
    IF hits = <<>> THEN <<>>
    ELSE InsertHit(hits[Len(hits)], SortHits(SubSeq(hits, 1, Len(hits) - 1)))

\* variant: the hits sorted by position in the text
_find_hits_ByPosition(txt, patterns) == SortHits(HitsFrom(txt, patterns, 1))

\* for p in patterns: for m in p.finditer(text): hits.append((m.group(0), m.span()))
_find_hits(txt, patterns) == HitsFrom(txt, patterns, 1)

\* [h[0] for h in hits]
Groups(hits) == [i \in DOMAIN hits |-> hits[i].group0]

\* variant: the category with more hits wins
Label_ByFrequency(lung, kidney) ==
    IF Len(lung) > Len(kidney) THEN "lungs"
    ELSE IF Len(kidney) > Len(lung) THEN "kidneys"
    ELSE IF Len(lung) > 0 THEN "both"
    ELSE "neither"

\* the if / elif chain on has_lungs and has_kidneys
Label(lung, kidney) ==
    LET has_lungs == Len(lung) > 0
        has_kidneys == Len(kidney) > 0
    IN  IF has_lungs /\ has_kidneys THEN "both"
        ELSE IF has_lungs THEN "lungs"
        ELSE IF has_kidneys THEN "kidneys"
        ELSE "neither"

\* The frame of a call when it ends: its locals and what it returns or raises.
Frame(lung, kidney, ignored, ret) ==
    [lung_hits |-> lung, kidney_hits |-> kidney, ignored_hits |-> ignored, ret |-> ret]

\* variant: the symptom terms counted as lung evidence
classify_medical_abstract_SymptomsCount(reg, v, return_evidence) ==
    LET t == IF Truthy(v) THEN v ELSE PyStr(<<>>) IN
    IF ~IsStr(t) THEN Frame(<<>>, <<>>, <<>>, Raised("TypeError"))
    ELSE LET ignored == _find_hits(t.s, reg.ignored)
             lung == _find_hits(t.s, reg.lungs) \o ignored
             kidney == _find_hits(t.s, reg.kidneys)
             label == Label(lung, kidney)
         IN  Frame(lung, kidney, ignored,
                   IF return_evidence
                   THEN ReturnedWith(label,
                            [lungs |-> Groups(lung), kidneys |-> Groups(kidney),
                             ignored |-> Groups(ignored)])
                   ELSE Returned(label))

\* text_classifier.py, classify_medical_abstract(text, return_evidence), run against the
\* lists reg.  Pattern.finditer raises TypeError on a value that is not a str, in the
\* first _find_hits.  The ignored list is scanned once for `_` and, when evidence is
\* asked for, once more for the evidence.
classify_medical_abstract(reg, v, return_evidence) ==
    LET t == IF Truthy(v) THEN v ELSE PyStr(<<>>) IN       \* text = text or ""
    IF ~IsStr(t) THEN Frame(<<>>, <<>>, <<>>, Raised("TypeError"))
    ELSE LET lung == _find_hits(t.s, reg.lungs)
             kidney == _find_hits(t.s, reg.kidneys)
             ignored == _find_hits(t.s, reg.ignored)
             label == Label(lung, kidney)
         IN  Frame(lung, kidney, ignored,
                   IF return_evidence
                   THEN ReturnedWith(label,
                            [lungs |-> Groups(lung), kidneys |-> Groups(kidney),
                             ignored |-> Groups(_find_hits(t.s, reg.ignored))])
                   ELSE Returned(label))

\* app.py, classify_medical_abstract(text, return_evidence)
app_classify_medical_abstract(reg, v, return_evidence) ==
    LET t == IF Truthy(v) THEN v ELSE PyStr(<<>>) IN       \* text = text or ""
    IF ~IsStr(t) THEN Frame(<<>>, <<>>, <<>>, Raised("TypeError"))
    ELSE LET lung == _find_hits(t.s, reg.lungs)
             kidney == _find_hits(t.s, reg.kidneys)
             ignored == _find_hits(t.s, reg.ignored)
             label == Label(lung, kidney)
         IN  Frame(lung, kidney, ignored,
                   IF return_evidence
                   THEN ReturnedWith(label,
                            [lungs |-> Groups(lung), kidneys |-> Groups(kidney),
                             ignored |-> Groups(ignored)])
                   ELSE Returned(label))

\* text_classifier_tkinter.py, classify(text)
classify(reg, v) ==
    LET t == IF IsStr(v) THEN v.s ELSE <<>>           \* text if isinstance(text, str) else ""
        lung == _find_hits(t, reg.lungs)
        kidney == _find_hits(t, reg.kidneys)
    IN  Frame(lung, kidney, <<>>, Returned(Label(lung, kidney)))

-----------------------------------------------------------------------------
(* Inputs *)

\* the longest text, in fragments
MaxParts == 3

\* Each vocabulary is a set of fragments; a text is up to MaxParts fragments of one
\* vocabulary, written one after another.
Vocabularies == {
    {<<"a","d">>, <<"r","e","n","a","l">>, <<"i","n","e">>, <<" ">>},
    {<<"n","e","p","h","r">>, <<"i","t","i","s">>, <<"o","l","o","g","y">>},
    {<<"i","n","t","e","r","s","t","i","t","i","a","l">>, <<" ","l","u","n","g">>, <<" ","d","i","s","e","a","s","e">>, <<"s">>},
    {<<"C","O","P","D">>, <<"a","r","d","s">>, <<"G","f","r">>, <<" ">>},
    {<<"s","p","i","r","o","m","e","t","r","y">>, <<"r","e","s","p","i","r","a","t","o","r","y">>, <<" ","t","r","a","c","t">>},
    {<<"p","r","o","t","e","i","n","u","r","i","a"," ">>, <<"a","l","b","u","m","i","n","u","r","i","a"," ">>},
    {<<"d","y","s","p","n","o","e","a"," ">>, <<"s","h","o","r","t","n","e","s","s"," ","o","f"," ","b","r","e","a","t","h"," ">>, <<"h","y","p","e","r","t","e","n","s","i","o","n"," ">>},
    {<<"r","e","n","i","n","-","a","n","g","i","o","t","e","n","s","i","n","-","a","l","d","o","s","t","e","r","o","n","e","-","s","y","s","t","e","m"," ">>, <<"R","A","A","S"," ">>, <<"t","a","c","h","y","c","a","r","d","i","a"," ">>},
    {<<"P","l","e","u","r","a","l"," ">>, <<"c","r","e","a","t","i","n","i","n","e"," ">>, <<"t","a","c","h","y","c","a","r","d","i","a"," ">>},
    {<<" ">>, <<"\n">>, <<"\t">>} }

SeqsUpTo(S, n) == UNION {[1..k -> S] : k \in 0..n}

RECURSIVE Flatten(_)
\* "".join(ps)
Flatten(ps) == IF ps = <<>> THEN <<>> ELSE Head(ps) \o Flatten(Tail(ps))

\* values that are not a str
NonStrings == {None, PyInt(0), PyInt(5), PyList(<<>>), PyList(<<"x">>)}

-----------------------------------------------------------------------------
(* One call of one copy of the classifier on one input *)

NotCalled == [copy |-> "none", return_evidence |-> FALSE]

\* the windowed form is not running
NoForm == text_box = <<>> /\ result_var = "" /\ message = "" /\ fs = <<>>

Init ==
    /\ registry = Registry
    /\ \/ \E V \in Vocabularies : \E ps \in SeqsUpTo(V, MaxParts) :
              parts = ps /\ text = PyStr(Flatten(ps))
       \/ parts = <<>> /\ text \in NonStrings
    /\ called = NotCalled
    /\ lung_hits = <<>> /\ kidney_hits = <<>> /\ ignored_hits = <<>>
    /\ result = Raised("")
    /\ calls = <<>>
    /\ NoForm

others == <<calls, text_box, result_var, message, fs>>

\* the call ends with frame f
Ends(f) ==
    /\ lung_hits' = f.lung_hits
    /\ kidney_hits' = f.kidney_hits
    /\ ignored_hits' = f.ignored_hits
    /\ result' = f.ret

\* text_classifier.py: classify_medical_abstract(text, return_evidence)
CallTextClassifier(return_evidence) ==
    /\ called = NotCalled
    /\ called' = [copy |-> "text_classifier", return_evidence |-> return_evidence]
    /\ Ends(classify_medical_abstract(registry.tc, text, return_evidence))
    /\ UNCHANGED <<registry, parts, text, others>>

\* app.py: classify_medical_abstract(text, return_evidence)
CallApp(return_evidence) ==
    /\ called = NotCalled
    /\ called' = [copy |-> "app", return_evidence |-> return_evidence]
    /\ Ends(app_classify_medical_abstract(registry.app, text, return_evidence))
    /\ UNCHANGED <<registry, parts, text, others>>

\* text_classifier_tkinter.py: classify(text)
CallTk ==
    /\ called = NotCalled
    /\ called' = [copy |-> "tk", return_evidence |-> FALSE]
    /\ Ends(classify(registry.tk, text))
    /\ UNCHANGED <<registry, parts, text, others>>

Next ==
    \/ \E return_evidence \in BOOLEAN : CallTextClassifier(return_evidence)
    \/ \E return_evidence \in BOOLEAN : CallApp(return_evidence)
    \/ CallTk

Spec == Init /\ [][Next]_vars

-----------------------------------------------------------------------------
(* Calls of text_classifier.py's classify_medical_abstract run statement by          *)
(* statement, one statement of one call at a time                                    *)

\* the number of calls in flight
NumCalls == 2
Calls == 1..NumCalls

ConcInputs == {None, PyInt(5), PyStr(<<"R","A","A","S"," ","l","u","n","g"," ","r","e","n","a","l"," ","l","u","n","g">>)}

\* a call about to run its first statement
Entered(v, return_evidence) ==
    [pc |-> "normalise", arg |-> v, return_evidence |-> return_evidence, text |-> v,
     lung_hits |-> <<>>, kidney_hits |-> <<>>, ignored_hits |-> <<>>, label |-> "",
     ret |-> Raised("")]

InitConc ==
    /\ registry = Registry
    /\ calls \in [Calls -> {Entered(v, e) : v \in ConcInputs, e \in BOOLEAN}]
    /\ parts = <<>> /\ text = None /\ called = NotCalled
    /\ lung_hits = <<>> /\ kidney_hits = <<>> /\ ignored_hits = <<>>
    /\ result = Raised("")
    /\ NoForm

single == <<parts, text, called, lung_hits, kidney_hits, ignored_hits, result>>
form == <<text_box, result_var, message, fs>>

\* text = text or ""
Normalise(c) ==
    /\ calls[c].pc = "normalise"
    /\ calls' = [calls EXCEPT ![c].text = IF Truthy(calls[c].arg) THEN calls[c].arg
                                          ELSE PyStr(<<>>),
                              ![c].pc = "scan_lungs"]
    /\ UNCHANGED <<registry, single, form>>

\* variant: the scan takes the patterns off the module-level list as it goes
ScanLungs_Consuming(c) ==
    /\ calls[c].pc = "scan_lungs"
    /\ calls' = IF IsStr(calls[c].text)
                THEN [calls EXCEPT ![c].lung_hits = _find_hits(calls[c].text.s, registry.tc.lungs),
                                   ![c].pc = "scan_kidneys"]
                ELSE [calls EXCEPT ![c].ret = Raised("TypeError"), ![c].pc = "done"]
    /\ registry' = IF IsStr(calls[c].text) THEN [registry EXCEPT !.tc.lungs = <<>>]
                   ELSE registry
    /\ UNCHANGED <<single, form>>

\* lung_hits = _find_hits(text, _LUNG_PATTERNS)
ScanLungs(c) ==
    /\ calls[c].pc = "scan_lungs"
    /\ calls' = IF IsStr(calls[c].text)
                THEN [calls EXCEPT ![c].lung_hits = _find_hits(calls[c].text.s, registry.tc.lungs),
                                   ![c].pc = "scan_kidneys"]
                ELSE [calls EXCEPT ![c].ret = Raised("TypeError"), ![c].pc = "done"]
    /\ UNCHANGED <<registry, single, form>>

\* kidney_hits = _find_hits(text, _KIDNEY_PATTERNS)
ScanKidneys(c) ==
    /\ calls[c].pc = "scan_kidneys"
    /\ calls' = [calls EXCEPT ![c].kidney_hits = _find_hits(calls[c].text.s, registry.tc.kidneys),
                              ![c].pc = "scan_ignored"]
    /\ UNCHANGED <<registry, single, form>>

\* _ = _find_hits(text, _IGNORE_PATTERNS): kept in `_`, which nothing reads
ScanIgnored(c) ==
    /\ calls[c].pc = "scan_ignored"
    /\ calls' = [calls EXCEPT ![c].ignored_hits = _find_hits(calls[c].text.s, registry.tc.ignored),
                              ![c].pc = "decide"]
    /\ UNCHANGED <<registry, single, form>>

\* has_lungs, has_kidneys and the if / elif chain
Decide(c) ==
    /\ calls[c].pc = "decide"
    /\ calls' = [calls EXCEPT ![c].label = Label(calls[c].lung_hits, calls[c].kidney_hits),
                              ![c].pc = "return"]
    /\ UNCHANGED <<registry, single, form>>

\* if return_evidence: ... return label, evidence; else: return label
Return(c) ==
    /\ calls[c].pc = "return"
    /\ calls' = [calls EXCEPT
           ![c].ret = IF calls[c].return_evidence
                      THEN ReturnedWith(calls[c].label,
                               [lungs |-> Groups(calls[c].lung_hits),
                                kidneys |-> Groups(calls[c].kidney_hits),
                                ignored |-> Groups(_find_hits(calls[c].text.s,
                                                              registry.tc.ignored))])
                      ELSE Returned(calls[c].label),
           ![c].pc = "done"]
    /\ UNCHANGED <<registry, single, form>>

NextConc ==
    \E c \in Calls :
        \/ Normalise(c)
        \/ ScanLungs(c)
        \/ ScanKidneys(c)
        \/ ScanIgnored(c)
        \/ Decide(c)
        \/ Return(c)

SpecConc == InitConc /\ [][NextConc]_vars

-----------------------------------------------------------------------------
(* The windowed form (text_classifier_tkinter.py, main)                              *)

DEFAULT_TEXT ==
    <<"B","o","t","h",","," ","t","h","e"," ","e","t","i","o","l","o","g","y"," ","a",
        "n","d"," ","p","h","e","n","o","t","y","p","e"," ","o","f"," ","h","e","a","r",
        "t"," ","f","a","i","l","u","r","e"," ","d","i","f","f","e","r"," ","l","a","r",
        "g","e","l","y","."," ","F","o","l","l","o","w","i","n","g"," ","a"," ","c","a",
        "r","d","i","a","c"," ","i","n","j","u","r","y"," ","(","e",".","g",".",","," ",
        "m","y","o","c","a","r","d","i","a","l"," ","i","n","f","a","r","c","t","i","o",
        "n",","," ","i","n","c","r","e","a","s","e","d"," ","p","r","e","l","o","a","d",
        " ","o","r"," ","a","f","t","e","r","l","o","a","d",")"," ","c","e","l","l","u",
        "l","a","r",","," ","s","t","r","u","c","t","u","r","a","l"," ","a","n","d"," ",
        "n","e","u","r","o","h","u","m","o","r","a","l"," ","m","o","d","u","l","a","t",
        "i","o","n","s"," ","o","c","c","u","r"," ","t","h","a","t"," ","a","f","f","e",
        "c","t"," ","t","h","e"," ","p","h","e","n","o","t","y","p","e"," ","b","e","i",
        "n","g"," ","p","r","e","s","e","n","t","."," ","T","h","e","s","e"," ","p","r",
        "o","c","e","s","s","e","s"," ","i","n","f","l","u","e","n","c","e"," ","t","h",
        "e"," ","c","e","l","l"," ","f","u","n","c","t","i","o","n"," ","a","m","o","n",
        "g"," ","i","n","t","r","a","-"," ","a","s"," ","w","e","l","l"," ","a","s"," ",
        "i","n","t","e","r","c","e","l","l","u","l","a","r"," ","b","e","h","a","v","i",
        "o","r","."," ","I","n"," ","c","o","n","s","e","q","u","e","n","c","e",","," ",
        "a","c","t","i","v","a","t","i","o","n"," ","o","f"," ","t","h","e"," ","s","y",
        "m","p","a","t","h","o","a","d","r","e","n","e","r","g","i","c"," ","a","n","d",
        " ","r","e","n","i","n","-","a","n","g","i","o","t","e","n","s","i","n","-","a",
        "l","d","o","s","t","e","r","o","n","e","-","s","y","s","t","e","m"," ","t","a",
        "k","e","s"," ","p","l","a","c","e"," ","l","e","a","d","i","n","g"," ","t","o",
        " ","a","d","a","p","t","i","v","e"," ","m","e","c","h","a","n","i","s","m","s",
        ","," ","w","h","i","c","h"," ","a","r","e"," ","a","c","c","o","m","p","a","n",
        "i","e","d"," ","b","y"," ","v","o","l","u","m","e"," ","o","v","e","r","l","o",
        "a","d",","," ","t","a","c","h","y","c","a","r","d","i","a",","," ","d","y","s",
        "p","n","o","e","a"," ","a","n","d"," ","f","u","r","t","h","e","r"," ","d","e",
        "t","e","r","i","o","r","a","t","i","o","n"," ","o","f"," ","t","h","e"," ","c",
        "e","l","l","u","l","a","r"," ","f","u","n","c","t","i","o","n"," ","(","v","i",
        "c","i","o","u","s"," ","c","i","r","c","l","e",")","."," ","T","h","e","r","e",
        " ","e","x","i","s","t","s"," ","n","o"," ","h","e","a","r","t"," ","f","a","i",
        "l","u","r","e"," ","s","p","e","c","i","f","i","c"," ","c","l","i","n","i","c",
        "a","l"," ","s","i","g","n",";"," ","t","h","e"," ","c","l","i","n","i","c","a",
        "l"," ","s","y","m","p","t","o","m","a","t","i","c"," ","s","h","o","w","s"," ",
        "p","r","o","g","r","e","s","s","i","v","e"," ","d","e","t","e","r","i","o","r",
        "a","t","i","o","n"," ","a","c","u","t","e","l","y"," ","o","r"," ","c","h","r",
        "o","n","i","c","a","l","l","y",".">>

RECURSIVE lstrip(_)
lstrip(s) == IF s # <<>> /\ Head(s) \in Whitespace THEN lstrip(Tail(s)) ELSE s
RECURSIVE rstrip(_)
rstrip(s) ==
    IF s # <<>> /\ s[Len(s)] \in Whitespace THEN rstrip(SubSeq(s, 1, Len(s) - 1)) ELSE s
\* str.strip()
strip(s) == rstrip(lstrip(s))

\* A file is a sequence of bytes: the ASCII characters, and InvalidByte for a byte
\* that is not valid UTF-8.
InvalidByte == "0xFF"
\* bytes.decode("utf-8", errors="ignore")
decode_ignore(bytes) == SelectSeq(bytes, LAMBDA b : b # InvalidByte)
\* str.encode("utf-8") of ASCII text
encode(s) == s

\* what the user types into the text area
Typed == {<<>>, <<" ","\n">>, <<" ","r","e","n","a","l","\n">>, <<"C","O","P","D"," ","a","n","d"," ","d","i","a","l","y","s","i","s">>}
Paths == {"abstract.txt", "locked.txt"}
\* the file dialog was closed without a choice
NoPath == ""

InitForm ==
    /\ registry = Registry
    /\ text_box = DEFAULT_TEXT                       \* text_box.insert("1.0", DEFAULT_TEXT)
    /\ result_var = ""                               \* tk.StringVar(value="")
    /\ message = ""
    /\ fs = [p \in Paths |->
                IF p = "abstract.txt"
                THEN [readable |-> TRUE, writable |-> TRUE,
                      bytes |-> <<"p","l","e","u","r","a","l">> \o <<InvalidByte>> \o <<" ","e","f","f","u","s","i","o","n","\n">>]
                ELSE [readable |-> FALSE, writable |-> FALSE, bytes |-> <<>>]]
    /\ parts = <<>> /\ text = None /\ called = NotCalled
    /\ lung_hits = <<>> /\ kidney_hits = <<>> /\ ignored_hits = <<>>
    /\ result = Raised("")
    /\ calls = <<>>

\* the user replaces the content of the text area
Edit(t) ==
    /\ text_box' = t
    /\ message' = ""
    /\ UNCHANGED <<registry, single, calls, result_var, fs>>

\* Open...: load_file()
load_file(path) ==
    /\ IF path # NoPath /\ fs[path].readable
       THEN /\ text_box' = decode_ignore(fs[path].bytes)
            /\ message' = ""
       ELSE /\ message' = IF path # NoPath THEN "error" ELSE ""    \* messagebox.showerror
            /\ UNCHANGED text_box
    /\ UNCHANGED <<registry, single, calls, result_var, fs>>

\* Save...: save_text()
save_text(path) ==
    /\ IF path # NoPath /\ fs[path].writable
       THEN /\ fs' = [fs EXCEPT ![path].bytes = encode(text_box)]
            /\ message' = ""
       ELSE /\ message' = IF path # NoPath THEN "error" ELSE ""    \* messagebox.showerror
            /\ UNCHANGED fs
    /\ UNCHANGED <<registry, single, calls, text_box, result_var>>

\* Clear: (text_box.delete("1.0", "end"), result_var.set(""))
Clear ==
    /\ text_box' = <<>>
    /\ result_var' = ""
    /\ message' = ""
    /\ UNCHANGED <<registry, single, calls, fs>>

\* variant: no check for empty text
do_classify_Unguarded ==
    LET txt == strip(text_box) IN
    /\ text' = PyStr(txt)
    /\ called' = [copy |-> "tk", return_evidence |-> FALSE]
    /\ Ends(classify(registry.tk, PyStr(txt)))
    /\ result_var' = classify(registry.tk, PyStr(txt)).ret.label
    /\ message' = ""
    /\ UNCHANGED <<registry, parts, calls, text_box, fs>>

\* Classify: do_classify().  The call of classify is recorded in the variables of
\* the one call.
do_classify ==
    LET txt == strip(text_box) IN
    /\ IF txt = <<>>
       THEN /\ message' = "warning"                  \* messagebox.showwarning
            /\ UNCHANGED <<text, called, lung_hits, kidney_hits, ignored_hits, result,
                           result_var>>
       ELSE LET f == classify(registry.tk, PyStr(txt)) IN       \* label = classify(txt)
            /\ text' = PyStr(txt)
            /\ called' = [copy |-> "tk", return_evidence |-> FALSE]
            /\ Ends(f)
            /\ result_var' = f.ret.label                         \* result_var.set(label)
            /\ message' = ""
    /\ UNCHANGED <<registry, parts, calls, text_box, fs>>

NextForm ==
    \/ \E t \in Typed : Edit(t)
    \/ \E path \in Paths \cup {NoPath} : load_file(path)
    \/ \E path \in Paths \cup {NoPath} : save_text(path)
    \/ Clear
    \/ do_classify

SpecForm == InitForm /\ [][NextForm]_vars

-----------------------------------------------------------------------------
(* Properties of one call *)

Done == called # NotCalled
Labels == {"lungs", "kidneys", "both", "neither"}
Spans(hits) == [i \in DOMAIN hits |-> hits[i].span]

\* the copy `copy` run on v against its own lists, with `ignored` as its ignored list
RunCopy(copy, ignored, v, return_evidence) ==
    CASE copy = "text_classifier" ->
             classify_medical_abstract([registry.tc EXCEPT !.ignored = ignored],
                                       v, return_evidence)
      [] copy = "app" ->
             app_classify_medical_abstract([registry.app EXCEPT !.ignored = ignored],
                                           v, return_evidence)
      [] copy = "tk" -> classify(registry.tk, v)
RegistryOf(copy) ==
    CASE copy = "text_classifier" -> registry.tc
      [] copy = "app" -> registry.app
      [] copy = "tk" -> registry.tk

\* C1: a call on a str returns one of the four labels, and the label is the one the
\* table gives for (lung hit list empty or not, kidney hit list empty or not); with
\* evidence, the evidence lists are empty exactly when the hit lists are.
C1_LabelByTable ==
    (Done /\ IsStr(text)) =>
        /\ result.raised = ""
        /\ result.label \in Labels
        /\ (result.label = "both") <=> (lung_hits # <<>> /\ kidney_hits # <<>>)
        /\ (result.label = "lungs") <=> (lung_hits # <<>> /\ kidney_hits = <<>>)
        /\ (result.label = "kidneys") <=> (lung_hits = <<>> /\ kidney_hits # <<>>)
        /\ (result.label = "neither") <=> (lung_hits = <<>> /\ kidney_hits = <<>>)
        /\ result.has_evidence = called.return_evidence
        /\ result.has_evidence =>
               /\ Len(result.evidence.lungs) = Len(lung_hits)
               /\ Len(result.evidence.kidneys) = Len(kidney_hits)

\* C1 witness: a call that found one kidney hit and several lung hits returned 'both'
C1_Witness ==
    /\ Done /\ called.return_evidence
    /\ Len(lung_hits) > 1 /\ Len(kidney_hits) = 1
    /\ result.label = "both"

\* str.isspace() of a non-empty text
IsBlank(s) == s # <<>> /\ \A i \in DOMAIN s : s[i] \in Whitespace
Degenerate(v) == ~IsStr(v) \/ v.s = <<>> \/ IsBlank(v.s)

\* C2: a call on a degenerate input (empty, None, whitespace only, not a str) ends
\* without raising and returns 'neither', with three empty evidence lists.
C2_DegenerateNeither ==
    (Done /\ Degenerate(text)) =>
        /\ result.raised = ""
        /\ result.label = "neither"
        /\ result.evidence = NoEvidence

\* the fragments that are a term of the ignored category followed by a space
IgnoredTerms == {
    <<"d","y","s","p","n","o","e","a"," ">>, <<"s","h","o","r","t","n","e","s","s"," ","o","f"," ","b","r","e","a","t","h"," ">>, <<"r","e","n","i","n","-","a","n","g","i","o","t","e","n","s","i","n","-","a","l","d","o","s","t","e","r","o","n","e","-","s","y","s","t","e","m"," ">>,
    <<"R","A","A","S"," ">>, <<"t","a","c","h","y","c","a","r","d","i","a"," ">>, <<"h","y","p","e","r","t","e","n","s","i","o","n"," ">>}
OnlyIgnoredTerms == parts # <<>> /\ \A i \in DOMAIN parts : parts[i] \in IgnoredTerms

\* C3: the label is the one the same copy returns with an empty ignored list and with
\* the first lung pattern as its ignored list; a text of ignored terms only is 'neither', with
\* one ignored hit per term and no lung or kidney hit; no hit of the ignored list is
\* among the lung or kidney hits.
C3_IgnoredNeverDecides ==
    (Done /\ IsStr(text) /\ called.copy \in {"text_classifier", "app"}) =>
        /\ \A ig \in {<<>>, SubSeq(RegistryOf(called.copy).lungs, 1, 1)} :
               RunCopy(called.copy, ig, text, FALSE).ret.label = result.label
        /\ OnlyIgnoredTerms =>
               /\ result.label = "neither"
               /\ lung_hits = <<>> /\ kidney_hits = <<>>
               /\ Len(ignored_hits) = Len(parts)
               /\ result.has_evidence =>
                      /\ result.evidence.lungs = <<>> /\ result.evidence.kidneys = <<>>
                      /\ Len(result.evidence.ignored) = Len(parts)
                      /\ {result.evidence.ignored[i] : i \in DOMAIN parts} =
                             {SubSeq(parts[i], 1, Len(parts[i]) - 1) : i \in DOMAIN parts}
        /\ \A i \in DOMAIN ignored_hits :
               /\ \A j \in DOMAIN lung_hits : lung_hits[j].span # ignored_hits[i].span
               /\ \A j \in DOMAIN kidney_hits : kidney_hits[j].span # ignored_hits[i].span

\* C3 witness: a text of three ignored terms was classified, with evidence
C3_Witness ==
    /\ Done /\ called.copy = "text_classifier" /\ called.return_evidence
    /\ OnlyIgnoredTerms /\ Len(parts) = 3
    /\ Len(result.evidence.ignored) = 3

\* a word boundary at p, read off the text
WordBoundaryAt(s, p) ==
    LET before == IF p = 0 THEN FALSE ELSE s[p] \in WordChars
        after == IF p = Len(s) THEN FALSE ELSE s[p + 1] \in WordChars
    IN  before # after

\* C4: every lung and kidney hit starts and ends at a word boundary; 'renal' inside
\* 'adrenaline' gives no kidney hit and the label 'neither'; 'renal', 'nephritis' and
\* 'nephrology' give one kidney hit and the label 'kidneys'.
C4_WordBoundary ==
    (Done /\ IsStr(text)) =>
        /\ \A i \in DOMAIN lung_hits :
               /\ WordBoundaryAt(text.s, lung_hits[i].span[1])
               /\ WordBoundaryAt(text.s, lung_hits[i].span[2])
        /\ \A i \in DOMAIN kidney_hits :
               /\ WordBoundaryAt(text.s, kidney_hits[i].span[1])
               /\ WordBoundaryAt(text.s, kidney_hits[i].span[2])
        /\ parts = <<<<"a","d">>, <<"r","e","n","a","l">>, <<"i","n","e">>>> =>
               kidney_hits = <<>> /\ result.label = "neither"
        /\ parts \in {<<<<"r","e","n","a","l">>>>, <<<<"n","e","p","h","r">>, <<"i","t","i","s">>>>, <<<<"n","e","p","h","r">>, <<"o","l","o","g","y">>>>} =>
               /\ Groups(kidney_hits) = <<text.s>>
               /\ result.label = "kidneys"

\* C4 witness: 'adrenaline' was classified
C4_Witness ==
    /\ Done /\ called.copy = "text_classifier"
    /\ parts = <<<<"a","d">>, <<"r","e","n","a","l">>, <<"i","n","e">>>>
    /\ result.label = "neither"

\* C5: in each copy a text whose only term is a spirometry term is 'lungs', and one
\* whose only term is 'proteinuria' or 'albuminuria' is 'kidneys'.
C5_RegistryCoversSpec ==
    Done =>
        /\ parts = <<<<"s","p","i","r","o","m","e","t","r","y">>>> => result.label = "lungs"
        /\ parts \in {<<<<"p","r","o","t","e","i","n","u","r","i","a"," ">>>>, <<<<"a","l","b","u","m","i","n","u","r","i","a"," ">>>>} => result.label = "kidneys"

\* C6: the three copies return the same label for every text.
C6_CopiesAgree ==
    (Done /\ IsStr(text)) =>
        \A copy \in {"text_classifier", "app", "tk"} :
            RunCopy(copy, RegistryOf(copy).ignored, text, FALSE).ret.label = result.label

\* C8: the text, its upper-case form and its lower-case form get the same label and
\* hits at the same positions in all three lists, and every evidence string is the
\* substring of the text as written at the position of its hit.
C8_CaseInsensitive ==
    (Done /\ IsStr(text) /\ called \in {[copy |-> "text_classifier", return_evidence |-> TRUE],
                                        [copy |-> "tk", return_evidence |-> FALSE]}) =>
        /\ \A v \in {PyStr(str_upper(text.s)), PyStr(str_lower(text.s))} :
               LET f == RunCopy(called.copy, RegistryOf(called.copy).ignored, v, FALSE)
               IN  /\ f.ret.label = result.label
                   /\ Spans(f.lung_hits) = Spans(lung_hits)
                   /\ Spans(f.kidney_hits) = Spans(kidney_hits)
                   /\ Spans(f.ignored_hits) = Spans(ignored_hits)
        /\ result.has_evidence =>
               /\ result.evidence.lungs =
                      [i \in DOMAIN lung_hits |->
                          SubSeq(text.s, lung_hits[i].span[1] + 1, lung_hits[i].span[2])]
               /\ result.evidence.kidneys =
                      [i \in DOMAIN kidney_hits |->
                          SubSeq(text.s, kidney_hits[i].span[1] + 1, kidney_hits[i].span[2])]
               /\ result.evidence.ignored =
                      [i \in DOMAIN ignored_hits |->
                          SubSeq(text.s, ignored_hits[i].span[1] + 1, ignored_hits[i].span[2])]

\* C8 witness: a text with the abbreviations in three different cases was classified
C8_Witness ==
    /\ Done /\ called.copy = "text_classifier" /\ called.return_evidence
    /\ parts = <<<<"G","f","r">>, <<" ">>, <<"a","r","d","s">>>>
    /\ result.evidence.kidneys = <<<<"G","f","r">>>>
    /\ result.evidence.lungs = <<<<"a","r","d","s">>>>

RECURSIVE PerPattern(_, _, _)
\* the matches of pattern i, then those of pattern i + 1, ...: each pattern's matches
\* taken alone
PerPattern(s, patterns, i) ==
    IF i > Len(patterns) THEN <<>>
    ELSE Groups(finditer(patterns[i], s)) \o PerPattern(s, patterns, i + 1)

Ascending(hits) ==
    \A i \in 1..(Len(hits) - 1) : hits[i].span[2] <= hits[i + 1].span[1]

\* C9: each evidence list holds one entry per match of each pattern, pattern by
\* pattern in registry order and by position within a pattern; a span two patterns
\* match gives two entries, and a repeated term one entry per occurrence.
C9_EvidenceOrder ==
    (Done /\ result.has_evidence) =>
        /\ result.evidence.lungs = PerPattern(text.s, RegistryOf(called.copy).lungs, 1)
        /\ result.evidence.kidneys = PerPattern(text.s, RegistryOf(called.copy).kidneys, 1)
        /\ result.evidence.ignored = PerPattern(text.s, RegistryOf(called.copy).ignored, 1)
        /\ \A i \in DOMAIN RegistryOf(called.copy).lungs :
               Ascending(finditer(RegistryOf(called.copy).lungs[i], text.s))
        /\ parts = <<<<"i","n","t","e","r","s","t","i","t","i","a","l">>, <<" ","l","u","n","g">>, <<" ","d","i","s","e","a","s","e">>>> =>
               result.evidence.lungs = <<<<"l","u","n","g">>, <<"i","n","t","e","r","s","t","i","t","i","a","l"," ","l","u","n","g"," ","d","i","s","e","a","s","e">>>>
        /\ parts = <<<<" ","l","u","n","g">>, <<"s">>, <<" ","l","u","n","g">>>> =>
               result.evidence.lungs = <<<<"l","u","n","g","s">>, <<"l","u","n","g">>>>
        /\ parts = <<<<" ","l","u","n","g">>, <<" ","l","u","n","g">>>> =>
               result.evidence.lungs = <<<<"l","u","n","g">>, <<"l","u","n","g">>>>

\* C9 witness: 'interstitial lung disease' was classified with evidence
C9_Witness ==
    /\ Done /\ called.copy = "text_classifier" /\ called.return_evidence
    /\ parts = <<<<"i","n","t","e","r","s","t","i","t","i","a","l">>, <<" ","l","u","n","g">>, <<" ","d","i","s","e","a","s","e">>>>
    /\ Len(result.evidence.lungs) = 2
-----------------------------------------------------------------------------
(* Properties of calls in flight together, and of the windowed form *)

\* C7: no step changes the pattern registry; a call that ends returns what the call
\* would return alone on its argument; a call that has ended keeps its result; two
\* ended calls with the same argument and flag have the same result.
C7_CallsIndependent ==
    [][ /\ registry' = registry
        /\ \A c \in Calls :
               /\ (calls[c].pc # "done" /\ calls'[c].pc = "done") =>
                      calls'[c].ret =
                          classify_medical_abstract(Registry.tc, calls[c].arg,
                                                    calls[c].return_evidence).ret
               /\ calls[c].pc = "done" => calls'[c] = calls[c]
        /\ \A c, d \in Calls :
               (/\ calls'[c].pc = "done" /\ calls'[d].pc = "done"
                /\ calls'[c].arg = calls'[d].arg
                /\ calls'[c].return_evidence = calls'[d].return_evidence) =>
                   calls'[c].ret = calls'[d].ret
      ]_vars

\* C7 witness: two calls on the same text, both with evidence, have ended with 'both'
C7_Witness ==
    /\ calls[1].pc = "done" /\ calls[2].pc = "done"
    /\ calls[1].arg = calls[2].arg /\ IsStr(calls[1].arg)
    /\ calls[1].return_evidence /\ calls[2].return_evidence
    /\ calls[1].ret.label = "both" /\ calls[2].ret.label = "both"
    /\ Len(calls[1].ret.evidence.lungs) = 2

\* C10: the result field changes only by a Classify on text that is not empty after
\* trimming, to the label of the trimmed text, or by Clear, to empty together with the
\* text area; a Classify on empty or blank text shows a warning, makes no call of
\* classify and leaves the result field; an Open of a file that cannot be read shows
\* an error and leaves the text area and the result field.
C10_ResultField ==
    [][ /\ result_var' # result_var =>
               \/ /\ do_classify
                  /\ strip(text_box) # <<>>
                  /\ result_var' = classify(Registry.tk, PyStr(strip(text_box))).ret.label
               \/ /\ Clear
                  /\ result_var' = "" /\ text_box' = <<>>
        /\ Clear => (result_var' = "" /\ text_box' = <<>>)
        /\ (do_classify /\ strip(text_box) # <<>>) =>
               result_var' = classify(Registry.tk, PyStr(strip(text_box))).ret.label
        /\ (do_classify /\ strip(text_box) = <<>>) =>
               /\ message' = "warning"
               /\ UNCHANGED <<result_var, text_box, text, called, lung_hits, kidney_hits,
                              ignored_hits, result>>
        /\ \A path \in Paths :
               (load_file(path) /\ ~fs[path].readable) =>
                   /\ message' = "error"
                   /\ UNCHANGED <<text_box, result_var>>
      ]_vars

\* C10 witness: after a classification, a Classify on blank text showed the warning
\* and the result field still holds the label
C10_Witness ==
    /\ message = "warning"
    /\ result_var = "kidneys"
    /\ strip(text_box) = <<>> /\ text_box # <<>>
====
